---- MODULE Spec2Model ----
(***************************************************************************)
(* A model of pomfrit's concurrency and lifecycle engine:                  *)
(*   - the one-shot completion signal  (src/src/utils.rs)                  *)
(*   - the double buffer               (src/src/exporter.rs, Buffers)      *)
(*   - the exporter: reload, server tasks, refresh loop                    *)
(*                                     (src/src/exporter.rs)               *)
(* Each component has its own next-state relation; the variables of the    *)
(* other components are left unchanged by it.                              *)
(***************************************************************************)
EXTENDS Integers, Sequences, FiniteSets, TLC

(***************************************************************************)
(* Bounds of the model.                                                    *)
(***************************************************************************)
\* receivers ever created for one signal (the original and its clones)
MaxReceivers == 2
\* concurrent holders of a clone of the Trigger, each calling trigger()
NumTriggers == 2

\* distinct task wakers a receiver may be polled with
Wakers == {1, 2}

Receivers == 1..MaxReceivers
Triggers == 1..NumTriggers
\* ids handed out by next_id (the original receiver has id 0)
Ids == 0..(MaxReceivers - 1)

(***************************************************************************)
(* utils.rs: State { complete, wakers, next_id }                           *)
(*   wakers: the HashMap<usize, Waker>, as a function id -> waker,         *)
(*           0 for a vacant entry                                          *)
(*   wlock:  the parking_lot mutex guarding wakers: 0 when free, else the  *)
(*           receiver whose poll holds it                                  *)
(*   rcv:    the receivers; each is owned by one task, so its poll, clone  *)
(*           and drop are sequential; rcv[r].pc is where it is             *)
(*   trg:    the calls of Trigger::trigger: pc, the map taken, and the ids *)
(*           registered in the wake set when the call began (pre,          *)
(*           observation only)                                             *)
(*   woken:  per id, how many times a waker registered under that id was   *)
(*           woken, and the waker woken last (observation only)            *)
(*   wakeDone: the call of trigger() that won the swap has returned        *)
(*   fireCalls: calls of trigger() so far, counted up to 2 (observation)   *)
(* Of a receiver: st (none, live, dropped), id, pc, cx (the waker of the   *)
(* poll under way), and what was observed of it: reg (the waker it         *)
(* registered last), np (polls that returned Pending, up to 2), last (the  *)
(* result of its last poll), fired (the flag was set when the poll under   *)
(* way began). The polls of a receiver are forgotten when it is dropped.   *)
(***************************************************************************)
VARIABLES complete, wakers, next_id, wlock, rcv, trg, woken, wakeDone, fireCalls

trigVars ==
    <<complete, wakers, next_id, wlock, rcv, trg, woken, wakeDone, fireCalls>>

NoWakers == [i \in Ids |-> 0]

NoReceiver ==
    [st |-> "none", id |-> 0, pc |-> "idle", cx |-> 0, reg |-> 0,
     np |-> 0, fired |-> FALSE, last |-> "none"]

\* trigger(): complete = false, no wakers, next_id = 1, one receiver of id 0
InitTrig ==
    /\ complete = FALSE
    /\ wakers = NoWakers
    /\ next_id = 1
    /\ wlock = 0
    /\ rcv = [r \in Receivers |-> IF r = 1 THEN [NoReceiver EXCEPT !.st = "live"]
                                           ELSE NoReceiver]
    /\ trg = [t \in Triggers |-> [pc |-> "idle", taken |-> NoWakers, pre |-> {}]]
    /\ woken = [i \in Ids |-> [n |-> 0, w |-> 0]]
    /\ wakeDone = FALSE
    /\ fireCalls = 0

(***************************************************************************)
(* Trigger::trigger                                                        *)
(***************************************************************************)
\* the value complete.swap(true) returns decides whether the call goes on
SwapReturnsEarly(old) == old

\* line 29-31: swap the flag; a call that finds it set returns at once
TriggerSwap(t) ==
    /\ trg[t].pc = "idle"
    /\ complete' = TRUE
    /\ IF SwapReturnsEarly(complete)
          THEN trg' = trg
          ELSE trg' = [trg EXCEPT ![t].pc = "take",
                                  ![t].pre = {i \in Ids : wakers[i] # 0}]
    /\ fireCalls' = IF fireCalls < 2 THEN fireCalls + 1 ELSE 2
    /\ UNCHANGED <<wakers, next_id, wlock, rcv, woken, wakeDone>>

\* line 33: std::mem::take(&mut *wakers.lock()), the lock held for the statement
TriggerTake(t) ==
    /\ trg[t].pc = "take"
    /\ wlock = 0
    /\ trg' = [trg EXCEPT ![t].pc = "wake", ![t].taken = wakers]
    /\ wakers' = NoWakers
    /\ UNCHANGED <<complete, next_id, wlock, rcv, woken, wakeDone, fireCalls>>

\* line 34-36: one iteration of the loop over the taken map (in any order)
TriggerWake(t) ==
    /\ trg[t].pc = "wake"
    /\ \E i \in Ids :
          /\ trg[t].taken[i] # 0
          /\ woken' = [woken EXCEPT ![i] =
                          [n |-> IF @.n < 2 THEN @.n + 1 ELSE 2,
                           w |-> trg[t].taken[i]]]
          /\ trg' = [trg EXCEPT ![t].taken[i] = 0]
    /\ UNCHANGED <<complete, wakers, next_id, wlock, rcv, wakeDone, fireCalls>>

\* a loop that is left before every waker was woken
LoopLeftEarly(taken) == TRUE

\* line 34: the iterator over the taken map is exhausted
LoopOver(taken) == \A i \in Ids : taken[i] = 0

\* line 37: the loop is over, the call returns
TriggerReturn(t) ==
    /\ trg[t].pc = "wake"
    /\ LoopOver(trg[t].taken)
    /\ trg' = [trg EXCEPT ![t].pc = "idle", ![t].taken = NoWakers]
    /\ wakeDone' = TRUE
    /\ UNCHANGED <<complete, wakers, next_id, wlock, rcv, woken, fireCalls>>

(***************************************************************************)
(* TriggerReceiver: clone, poll, drop                                      *)
(***************************************************************************)
FreeSlots == {n \in Receivers : rcv[n].st = "none"}

\* the id a clone gets: next_id.fetch_add(1)
CloneId(self_id, nid) == nid

\* line 53-60
ReceiverClone(r) ==
    /\ rcv[r].st = "live"
    /\ rcv[r].pc = "idle"
    /\ FreeSlots # {}
    /\ LET n == CHOOSE m \in FreeSlots : \A k \in FreeSlots : m <= k
       IN rcv' = [rcv EXCEPT ![n] = [NoReceiver EXCEPT !.st = "live",
                                        !.id = CloneId(rcv[r].id, next_id)]]
    /\ next_id' = next_id + 1
    /\ UNCHANGED <<complete, wakers, wlock, trg, woken, wakeDone, fireCalls>>

\* line 66: the first check of the flag, before the lock
FirstCheck(c) == c

\* line 66-68: a poll that finds the flag set is Ready at once
PollCheck(r, w) ==
    /\ rcv[r].st = "live"
    /\ rcv[r].pc = "idle"
    /\ IF FirstCheck(complete)
          THEN rcv' = [rcv EXCEPT ![r].last = "ready"]
          ELSE rcv' = [rcv EXCEPT ![r].cx = w, ![r].fired = complete,
                                  ![r].pc = "lock"]
    /\ UNCHANGED <<complete, wakers, next_id, wlock, trg, woken, wakeDone, fireCalls>>

\* line 70: wakers.lock()
PollLock(r) ==
    /\ rcv[r].pc = "lock"
    /\ wlock = 0
    /\ wlock' = r
    /\ rcv' = [rcv EXCEPT ![r].pc = "locked"]
    /\ UNCHANGED <<complete, wakers, next_id, trg, woken, wakeDone, fireCalls>>

\* a poll that does not look at the flag again once it holds the lock
NoSecondCheck(c) == FALSE

\* line 71: the second check of the flag, under the lock
SecondCheck(c) == c

\* an occupied entry is left as it is, whatever waker the poll brings
RegisterKeepsOld(old, w) == IF old # 0 THEN old ELSE w

\* line 74-83: the entry of this receiver's id after registering waker w
\* (will_wake is modelled as equality of wakers)
Register(old, w) == IF old # 0 /\ old = w THEN old ELSE w

\* line 71-86: second check, registration, Pending; the guard is dropped
PollRegister(r) ==
    /\ rcv[r].pc = "locked"
    /\ wlock = r
    /\ wlock' = 0
    /\ IF SecondCheck(complete)
          THEN /\ rcv' = [rcv EXCEPT ![r].pc = "idle", ![r].cx = 0,
                                     ![r].fired = FALSE, ![r].last = "ready"]
               /\ UNCHANGED wakers
          ELSE /\ wakers' = [wakers EXCEPT ![rcv[r].id] = Register(@, rcv[r].cx)]
               /\ rcv' = [rcv EXCEPT ![r].pc = "idle", ![r].cx = 0,
                                     ![r].fired = FALSE,
                                     ![r].last = IF rcv[r].fired THEN "missed"
                                                                 ELSE "pending",
                                     ![r].np = IF @ < 2 THEN @ + 1 ELSE 2,
                                     ![r].reg = rcv[r].cx]
    /\ UNCHANGED <<complete, next_id, trg, woken, wakeDone, fireCalls>>

\* line 47: the flag decides whether drop touches the wake set
DropCheck(r) ==
    /\ rcv[r].st = "live"
    /\ rcv[r].pc = "idle"
    /\ IF complete
          THEN rcv' = [rcv EXCEPT ![r].st = "dropped", ![r].np = 0,
                                  ![r].last = "none"]
          ELSE rcv' = [rcv EXCEPT ![r].pc = "remove"]
    /\ UNCHANGED <<complete, wakers, next_id, wlock, trg, woken, wakeDone, fireCalls>>

\* a drop that clears the wake set
RemoveAll(ws, id) == NoWakers

\* line 48: what wakers.lock().remove(&id) leaves of the map
Remove(ws, id) == [ws EXCEPT ![id] = 0]

DropRemove(r) ==
    /\ rcv[r].pc = "remove"
    /\ wlock = 0
    /\ wakers' = Remove(wakers, rcv[r].id)
    /\ rcv' = [rcv EXCEPT ![r].st = "dropped", ![r].pc = "idle", ![r].np = 0,
                          ![r].last = "none"]
    /\ UNCHANGED <<complete, next_id, wlock, trg, woken, wakeDone, fireCalls>>


(***************************************************************************)
(* exporter.rs: Buffers { data, current_buffer }                           *)
(*   data:  the two strings, as sequences of the chunks written            *)
(*   rw:    the tokio RwLock of each string: the write guard is out        *)
(*          (writer), the tasks holding a read guard (readers), and the    *)
(*          tasks waiting, in the order they arrived (queue; the lock is   *)
(*          fair: a task that cannot be served waits behind the others)    *)
(*   wr:    the refresh loop, the only caller of acquire_buffer (spawn     *)
(*          consumes the MetricsWriter): where it is (pc), next_buffer,    *)
(*          the invocation of the callback under way (k) and the number    *)
(*          of write() calls it has made (n)                               *)
(*   rd:    the callers of get_metrics: pc, the index loaded (idx), the    *)
(*          string returned last (got.val) and the invocation that had     *)
(*          cleared the buffer it was copied from (got.k, observation),    *)
(*          the number of calls returned, up to 1 (reads), the number of   *)
(*          invocations published when the call began (c, observation)     *)
(*   cleared: per buffer, the invocation that cleared it last, 0 when it   *)
(*          still is the initial empty string (observation only)           *)
(***************************************************************************)
VARIABLES data, current_buffer, rw, wr, rd, cleared

bufVars == <<data, current_buffer, rw, wr, rd, cleared>>

\* invocations of the callback by the refresh loop
MaxCalls == 3
\* write() calls the callback makes per invocation
ChunksPerCall == 2
\* concurrent callers of get_metrics
NumReaders == 2

BUFFER_COUNT == 2

Buffer == 0..(BUFFER_COUNT - 1)
Readers == 1..NumReaders
WriterTask == 0

\* the chunks invocation k of the callback writes: k, ChunksPerCall times
Chunk(k) == k
Snapshot(k) == [i \in 1..ChunksPerCall |-> Chunk(k)]

FreeLock == [writer |-> FALSE, readers |-> {}, queue |-> <<>>]

\* Buffers::default(): two empty strings, current_buffer = 0
InitBuf ==
    /\ data = [b \in Buffer |-> <<>>]
    /\ current_buffer = 0
    /\ rw = [b \in Buffer |-> FreeLock]
    /\ wr = [pc |-> "load", next_buffer |-> 0, k |-> 0, n |-> 0]
    /\ rd = [r \in Readers |-> [pc |-> "idle", idx |-> 0,
                                 got |-> [val |-> <<>>, k |-> 0], reads |-> 0,
                                 c |-> 0]]
    /\ cleared = [b \in Buffer |-> 0]

\* tokio RwLock: a released lock is handed to the waiters at the head of the queue
RECURSIVE Handoff(_)
Handoff(l) ==
    IF l.queue = <<>> \/ l.writer
       THEN l
       ELSE IF Head(l.queue) = WriterTask
               THEN IF l.readers = {}
                       THEN [l EXCEPT !.writer = TRUE, !.queue = Tail(@)]
                       ELSE l
               ELSE Handoff([l EXCEPT !.readers = @ \cup {Head(l.queue)},
                                      !.queue = Tail(@)])

\* write(): granted at once when nobody holds the lock or waits for it
LockWrite(l) ==
    IF ~l.writer /\ l.readers = {} /\ l.queue = <<>>
       THEN [l EXCEPT !.writer = TRUE]
       ELSE [l EXCEPT !.queue = Append(@, WriterTask)]

\* a read that does not wait for the write guard to be dropped
LockReadUnguarded(l, r) == [l EXCEPT !.readers = @ \cup {r}]

\* read(): granted at once when nobody writes and nobody waits
LockRead(l, r) ==
    IF ~l.writer /\ l.queue = <<>>
       THEN [l EXCEPT !.readers = @ \cup {r}]
       ELSE [l EXCEPT !.queue = Append(@, r)]

UnlockWrite(l) == Handoff([l EXCEPT !.writer = FALSE])
UnlockRead(l, r) == Handoff([l EXCEPT !.readers = @ \ {r}])

(***************************************************************************)
(* Buffers::acquire_buffer, MetricsBuffer::write, MetricsBuffer::drop      *)
(***************************************************************************)
\* a writer that takes the current buffer
SameBuffer(cur) == cur

\* line 243: the buffer the writer takes
NextBuffer(cur) == (cur + 1) % BUFFER_COUNT

\* line 243 (at the start of an invocation of the callback, line 172)
AcquireLoad ==
    /\ wr.pc = "load"
    /\ wr.k < MaxCalls
    /\ wr' = [wr EXCEPT !.pc = "lock", !.next_buffer = NextBuffer(current_buffer),
                        !.k = @ + 1, !.n = 0]
    /\ UNCHANGED <<data, current_buffer, rw, rd, cleared>>

\* line 244: self.data[next_buffer].write()
AcquireLock ==
    /\ wr.pc = "lock"
    /\ rw' = [rw EXCEPT ![wr.next_buffer] = LockWrite(@)]
    /\ wr' = [wr EXCEPT !.pc = "await"]
    /\ UNCHANGED <<data, current_buffer, rd, cleared>>

\* line 244-245: .await returns the guard; buffer_guard.clear()
AcquireClear ==
    /\ wr.pc = "await"
    /\ rw[wr.next_buffer].writer
    /\ data' = [data EXCEPT ![wr.next_buffer] = <<>>]
    /\ wr' = [wr EXCEPT !.pc = "write"]
    /\ cleared' = [cleared EXCEPT ![wr.next_buffer] = wr.k]
    /\ UNCHANGED <<current_buffer, rw, rd>>

\* line 272: buffer_guard.push_str, once per write() of the callback
BufferWrite ==
    /\ wr.pc = "write"
    /\ wr.n < ChunksPerCall
    /\ data' = [data EXCEPT ![wr.next_buffer] = Append(@, Chunk(wr.k))]
    /\ wr' = [wr EXCEPT !.n = @ + 1]
    /\ UNCHANGED <<current_buffer, rw, rd, cleared>>

\* a drop that stores nothing new
NotPublished(cur, next) == cur

\* line 279-281: the index stored is next_buffer
Published(cur, next) == next

\* line 278-281: Drop::drop stores the index (the guard is still held)
BufferPublish ==
    /\ wr.pc = "write"
    /\ wr.n = ChunksPerCall
    /\ current_buffer' = Published(current_buffer, wr.next_buffer)
    /\ wr' = [wr EXCEPT !.pc = "release"]
    /\ UNCHANGED <<data, rw, rd, cleared>>

\* line 264: the fields are dropped after Drop::drop, the write guard with them
BufferRelease ==
    /\ wr.pc = "release"
    /\ rw' = [rw EXCEPT ![wr.next_buffer] = UnlockWrite(@)]
    /\ wr' = [wr EXCEPT !.pc = "load"]
    /\ UNCHANGED <<data, current_buffer, rd, cleared>>

(***************************************************************************)
(* Buffers::get_metrics                                                    *)
(***************************************************************************)
\* invocations of the callback that have returned and were published
Completed == IF wr.pc \in {"release", "load"} \/ wr.k = 0 THEN wr.k ELSE wr.k - 1

\* a reader that goes on with the buffer the writer takes next
ReadOther(cur) == (cur + 1) % BUFFER_COUNT

\* line 254: the index the reader goes on with
ReadIndex(cur) == cur

GetLoad(r) ==
    /\ rd[r].pc = "idle"
    /\ rd' = [rd EXCEPT ![r].pc = "lock", ![r].idx = ReadIndex(current_buffer),
                        ![r].c = Completed]
    /\ UNCHANGED <<data, current_buffer, rw, wr, cleared>>

\* line 255: .read()
GetLock(r) ==
    /\ rd[r].pc = "lock"
    /\ rw' = [rw EXCEPT ![rd[r].idx] = LockRead(@, r)]
    /\ rd' = [rd EXCEPT ![r].pc = "await"]
    /\ UNCHANGED <<data, current_buffer, wr, cleared>>

\* line 256-257: .await returns the guard; clone; the guard is dropped
GetClone(r) ==
    /\ rd[r].pc = "await"
    /\ r \in rw[rd[r].idx].readers
    /\ rd' = [rd EXCEPT ![r].pc = "idle", ![r].got = [val |-> data[rd[r].idx], k |-> cleared[rd[r].idx]],
                        ![r].reads = 1]
    /\ rw' = [rw EXCEPT ![rd[r].idx] = UnlockRead(@, r)]
    /\ UNCHANGED <<data, current_buffer, wr, cleared>>


(***************************************************************************)
(* exporter.rs: MetricsExporter, MetricsWriter, MetricsExporterHandle      *)
(*   exporter: "creating" while create_exporter runs its first reload,     *)
(*          "alive" once it has returned Ok, "dropped" when the last       *)
(*          reference to the MetricsExporter is gone                       *)
(*   writer: the MetricsWriter: "none" until create_exporter returns it,   *)
(*          "held" by the application, "spawning" while spawn runs (the    *)
(*          task is started, self is not dropped yet), "spawned" once      *)
(*          spawn has returned                                             *)
(*   interval_sec, running_endpoint (0 for None, else the endpoint)        *)
(*   mutex: the task holding the running_endpoint mutex, 0 when free       *)
(*   notified: the Notified future of the refresh loop's wait(): "none",   *)
(*          "created" (exists, receives no notification yet), "armed"      *)
(*          (will be completed by notify_waiters), "fired"                 *)
(*   completion_sig: the exporter-wide signal; local_sig[e], stopped_sig[e]*)
(*          the two signals of endpoint e. A signal is the State of        *)
(*          utils.rs with each operation on it taken as one step: the flag *)
(*          and the tasks whose waker is registered                        *)
(*   ep:    the endpoints and their server tasks: st is "free", "serving"  *)
(*          (listener bound), "draining" (graceful shutdown under way),    *)
(*          "closed" (the server future has ended and was dropped),        *)
(*          "done" (stopped_trigger fired); run: the task has been woken   *)
(*          and will be polled                                             *)
(*   rl:    the calls of reload under way: pc, the argument (cfg), the     *)
(*          endpoint taken from the slot (took), whether the task will be  *)
(*          polled (run), whether it is suspended on the stopped signal    *)
(*          (susp), the result about to be returned (res) and, as          *)
(*          observations, the slot when the call got the lock (pre) and    *)
(*          whether the server task of the endpoint taken had ended and    *)
(*          fired its stopped signal when the call went on (drained)       *)
(*   loop:  the refresh loop: pc, current_interval, and whether new_config *)
(*          has been polled (polled)                                       *)
(*   obs:   observations of the schedule: sawZero (the loop has loaded     *)
(*          interval 0 in wait() and no non-zero interval was stored       *)
(*          since), zeroSet (the last store of reload was 0), called (the  *)
(*          loop has begun an invocation of the callback), zcalls (the     *)
(*          invocations begun since the interval stored became 0, counted  *)
(*          up to 2)                                                       *)
(***************************************************************************)
VARIABLES exporter, writer, interval_sec, running_endpoint, mutex, notified,
          completion_sig, local_sig, stopped_sig, ep, rl, loop, obs

expVars ==
    <<exporter, writer, interval_sec, running_endpoint, mutex, notified,
      completion_sig, local_sig, stopped_sig, ep, rl, loop, obs>>

\* concurrent callers of reload
NumCallers == 2
\* endpoints that exist at a time (a slot is reused once its endpoint is gone)
MaxEndpoints == 2

Procs == 1..NumCallers
Endpoints == 1..MaxEndpoints
\* listen addresses and refresh intervals (seconds) the configurations use
Addrs == {1, 2}
Intervals == {0, 1, 2}

Configs ==
    [listen_address : Addrs, collection_interval_sec : Intervals]
\* reload(None)
NoConfig == [listen_address |-> 0, collection_interval_sec |-> 0]

NewSignal == [complete |-> FALSE, wakers |-> {}]
NoEndpoint == [st |-> "free", addr |-> 0, run |-> FALSE]
IdleCall ==
    [pc |-> "idle", cfg |-> NoConfig, took |-> 0, run |-> FALSE, pre |-> 0,
     susp |-> FALSE, drained |-> FALSE, dead |-> FALSE, res |-> "none"]

\* create_exporter, line 17-26: the exporter is built, its first reload is next
InitExp ==
    /\ exporter = "creating"
    /\ writer = "none"
    /\ interval_sec = 0
    /\ running_endpoint = 0
    /\ mutex = 0
    /\ notified = "none"
    /\ completion_sig = NewSignal
    /\ local_sig = [e \in Endpoints |-> NewSignal]
    /\ stopped_sig = [e \in Endpoints |-> NewSignal]
    /\ ep = [e \in Endpoints |-> NoEndpoint]
    /\ rl = [p \in Procs |-> IF p = 1 THEN [IdleCall EXCEPT !.pc = "lock"]
                                      ELSE IdleCall]
    /\ loop = [pc |-> "none", current_interval |-> 0, polled |-> FALSE]
    /\ obs = [sawZero |-> FALSE, zeroSet |-> FALSE, called |-> FALSE,
              zcalls |-> 0]

(***************************************************************************)
(* The signals, as used by the exporter (utils.rs, one step per call).     *)
(***************************************************************************)
\* Trigger::trigger: the tasks woken by the call, and the state it leaves
Woken(s) == IF s.complete THEN {} ELSE s.wakers
Fire(s) == [complete |-> TRUE, wakers |-> {}]
\* TriggerReceiver::poll: Ready when fired, else the task's waker is registered
Ready(s) == s.complete
Subscribe(s, t) == [s EXCEPT !.wakers = @ \cup {t}]
\* TriggerReceiver::drop
Unsubscribe(s, t) == IF s.complete THEN s ELSE [s EXCEPT !.wakers = @ \ {t}]

\* the listeners bound: from try_bind until the server future is dropped
Bound == {e \in Endpoints : ep[e].st \in {"serving", "draining"}}

(***************************************************************************)
(* MetricsExporter::reload                                                 *)
(***************************************************************************)
\* a later call of reload, by any holder of the Arc<MetricsExporter>
ReloadCall(p) ==
    /\ exporter = "alive"
    /\ rl[p].pc = "idle"
    /\ rl' = [rl EXCEPT ![p] = [IdleCall EXCEPT !.pc = "lock"]]
    /\ UNCHANGED <<exporter, writer, interval_sec, running_endpoint, mutex,
                   notified, completion_sig, local_sig, stopped_sig, ep, loop,
                   obs>>

\* line 51: the mutex is free
MutexFree(m) == m = 0

\* line 51: running_endpoint.lock().await
ReloadLock(p) ==
    /\ rl[p].pc = "lock"
    /\ MutexFree(mutex)
    /\ mutex' = p
    /\ rl' = [rl EXCEPT ![p].pc = "take", ![p].pre = running_endpoint]
    /\ UNCHANGED <<exporter, writer, interval_sec, running_endpoint, notified,
                   completion_sig, local_sig, stopped_sig, ep, loop, obs>>

\* line 54-56: take the endpoint out of the slot and fire its completion trigger
ReloadTake(p) ==
    /\ rl[p].pc = "take"
    /\ running_endpoint # 0
    /\ LET e == running_endpoint
       IN /\ running_endpoint' = 0
          /\ local_sig' = [local_sig EXCEPT ![e] = Fire(@)]
          /\ ep' = [ep EXCEPT ![e].run = @ \/ e \in Woken(local_sig[e])]
          /\ rl' = [rl EXCEPT ![p].pc = "await", ![p].took = e, ![p].run = TRUE,
                               ![p].dead = (ep[e].st = "done")]
    /\ UNCHANGED <<exporter, writer, interval_sec, mutex, notified,
                   completion_sig, stopped_sig, loop, obs>>

\* line 54: the slot is empty
ReloadSkip(p) ==
    /\ rl[p].pc = "take"
    /\ running_endpoint = 0
    /\ rl' = [rl EXCEPT ![p].pc = "config"]
    /\ UNCHANGED <<exporter, writer, interval_sec, running_endpoint, mutex,
                   notified, completion_sig, local_sig, stopped_sig, ep, loop,
                   obs>>

\* line 58: what a poll of endpoint.stopped_signal finds
Stopped(s) == Ready(s)

\* line 58-59: endpoint.stopped_signal.await, one poll of it; when it is Ready
\* the endpoint taken is dropped (nothing is left of the endpoint of an ended
\* server task: its slot is free, its signals are gone)
ReloadAwait(p) ==
    /\ rl[p].pc = "await"
    /\ rl[p].run
    /\ LET e == rl[p].took
       IN IF Stopped(stopped_sig[e])
             THEN /\ rl' = [rl EXCEPT ![p].pc = "config", ![p].run = FALSE,
                                      ![p].took = 0, ![p].susp = FALSE,
                                      ![p].drained = /\ ep[e].st = "done"
                                                     /\ Ready(stopped_sig[e])]
                  /\ IF ep[e].st = "done"
                        THEN /\ ep' = [ep EXCEPT ![e] = NoEndpoint]
                             /\ local_sig' = [local_sig EXCEPT ![e] = NewSignal]
                             /\ stopped_sig' = [stopped_sig EXCEPT ![e] = NewSignal]
                        ELSE UNCHANGED <<ep, local_sig, stopped_sig>>
             ELSE /\ rl' = [rl EXCEPT ![p].run = FALSE, ![p].susp = TRUE]
                  /\ stopped_sig' = [stopped_sig EXCEPT ![e] = Subscribe(@, p)]
                  /\ UNCHANGED <<ep, local_sig>>
    /\ UNCHANGED <<exporter, writer, interval_sec, running_endpoint, mutex,
                   notified, completion_sig, loop, obs>>

\* endpoints no RunningEndpoint stands for: not in the slot, not taken by a
\* reload under way
Orphan(e) == running_endpoint # e /\ \A q \in Procs : rl[q].took # e

\* line 51, 58: the future of reload is dropped by its caller, before it is
\* polled or while it is suspended. Before it has the mutex, the call is over
\* and nothing else changes. Suspended on the stopped signal (woken or not),
\* the guard of the mutex is released and the endpoint taken is dropped, its
\* receiver with it: the slot stays empty, the interval stays, the old server
\* goes on with its shutdown.
ReloadCancel(p) ==
    /\ exporter = "alive"
    /\ \/ /\ rl[p].pc = "lock"
          /\ UNCHANGED <<mutex, local_sig, stopped_sig, ep>>
       \/ /\ rl[p].pc = "await"
          /\ rl[p].susp
          /\ mutex' = 0
          /\ LET e == rl[p].took
             IN IF ep[e].st = "done"
                   THEN /\ ep' = [ep EXCEPT ![e] = NoEndpoint]
                        /\ local_sig' = [local_sig EXCEPT ![e] = NewSignal]
                        /\ stopped_sig' = [stopped_sig EXCEPT ![e] = NewSignal]
                   ELSE /\ stopped_sig' =
                              [stopped_sig EXCEPT ![e] = Unsubscribe(@, p)]
                        /\ UNCHANGED <<ep, local_sig>>
    /\ rl' = [rl EXCEPT ![p] = IdleCall]
    /\ UNCHANGED <<exporter, writer, interval_sec, running_endpoint, notified,
                   completion_sig, loop, obs>>

\* The argument of reload is first read at line 61, under the lock: it is
\* drawn there.
\* line 61-65: reload(None) stores interval 0
ReloadDisable(p) ==
    /\ rl[p].pc = "config"
    /\ interval_sec' = 0
    /\ obs' = [obs EXCEPT !.zeroSet = TRUE]
    /\ rl' = [rl EXCEPT ![p].pc = "notify"]
    /\ UNCHANGED <<exporter, writer, running_endpoint, mutex, notified,
                   completion_sig, local_sig, stopped_sig, ep, loop>>

\* endpoint slots that hold no endpoint any more
FreeEndpoints == {e \in Endpoints : ep[e].st = "free" /\ Orphan(e)}

\* line 72: try_bind cannot succeed on an address a listener is bound to
CanBind(a) == \A e \in Bound : ep[e].addr # a

\* a service made with buffers of its own, empty
FreshBuffers(d) == [b \in Buffer |-> <<>>]

\* line 76: self.handle.buffers.clone() clones the Arc: the service reads the
\* strings the refresh loop writes
SharedBuffers(d) == d

\* line 72-135: try_bind succeeds; the server task is spawned with its signals
\* (a clone of completion_signal, local_completion_signal, stopped_trigger) and
\* the endpoint is stored in the slot
ReloadBind(p, c) ==
    /\ rl[p].pc = "config"
    /\ CanBind(c.listen_address)
    /\ FreeEndpoints # {}
    /\ LET e == CHOOSE f \in FreeEndpoints : \A g \in FreeEndpoints : f <= g
       IN /\ ep' = [ep EXCEPT ![e] = [st |-> "serving",
                                      addr |-> c.listen_address,
                                      run |-> TRUE]]
          /\ local_sig' = [local_sig EXCEPT ![e] = NewSignal]
          /\ stopped_sig' = [stopped_sig EXCEPT ![e] = NewSignal]
          /\ running_endpoint' = e
    /\ rl' = [rl EXCEPT ![p].pc = "store", ![p].cfg = c]
    /\ data' = SharedBuffers(data)
    /\ UNCHANGED <<current_buffer, rw, wr, rd, cleared>>
    /\ UNCHANGED <<exporter, writer, interval_sec, mutex, notified,
                   completion_sig, loop, obs>>

\* line 72-73: try_bind fails (the address is in use, by this process or by
\* another); reload is about to return the error, whatever the configuration
\* it was given
ReloadBindFails(p) ==
    /\ rl[p].pc = "config"
    /\ rl' = [rl EXCEPT ![p].pc = "return", ![p].res = "err"]
    /\ UNCHANGED <<exporter, writer, interval_sec, running_endpoint, mutex,
                   notified, completion_sig, local_sig, stopped_sig, ep, loop,
                   obs>>

\* line 138-140: store the new interval
ReloadStore(p) ==
    /\ rl[p].pc = "store"
    /\ interval_sec' = rl[p].cfg.collection_interval_sec
    /\ obs' = IF rl[p].cfg.collection_interval_sec = 0
                 THEN [obs EXCEPT !.zeroSet = TRUE]
                 ELSE [obs EXCEPT !.zeroSet = FALSE, !.sawZero = FALSE,
                                  !.zcalls = 0]
    /\ rl' = [rl EXCEPT ![p].pc = "notify"]
    /\ UNCHANGED <<exporter, writer, running_endpoint, mutex, notified,
                   completion_sig, local_sig, stopped_sig, ep, loop>>

\* notify_waiters() completes the Notified future that exists and is armed
NotifyWaiters(n) == IF n = "armed" THEN "fired" ELSE n

\* line 66, 141: new_config_notify.notify_waiters(); reload is about to
\* return Ok
ReloadNotify(p) ==
    /\ rl[p].pc = "notify"
    /\ notified' = NotifyWaiters(notified)
    /\ rl' = [rl EXCEPT ![p].pc = "return", ![p].res = "ok"]
    /\ UNCHANGED <<exporter, writer, interval_sec, running_endpoint, mutex,
                   completion_sig, local_sig, stopped_sig, ep, loop, obs>>

\* a drop that leaves the exporter-wide signal as it is
DropFiresNothing(s) == s

\* line 151: self.completion_trigger.trigger()
DropFires(s) == Fire(s)

\* impl Drop for MetricsExporter, line 148-153: fire the exporter-wide trigger
DropExporter ==
    /\ exporter' = "dropped"
    /\ completion_sig' = DropFires(completion_sig)
    /\ ep' = [e \in Endpoints |->
                 [ep[e] EXCEPT !.run = @ \/ e \in Woken(completion_sig)]]

\* line 67, 73, 144: reload returns and the guard of the mutex is dropped. In
\* create_exporter (line 28-33) Ok hands out the exporter and the writer, and
\* an error drops the exporter.
ReloadReturn(p) ==
    /\ rl[p].pc = "return"
    /\ mutex' = 0
    /\ rl' = [rl EXCEPT ![p] = IdleCall]
    /\ IF exporter = "creating"
          THEN IF rl[p].res = "ok"
                  THEN /\ exporter' = "alive"
                       /\ writer' = "held"
                       /\ UNCHANGED <<completion_sig, ep>>
                  ELSE /\ DropExporter
                       /\ UNCHANGED writer
          ELSE UNCHANGED <<exporter, writer, completion_sig, ep>>
    /\ UNCHANGED <<interval_sec, running_endpoint, notified, local_sig,
                   stopped_sig, loop, obs>>

\* the last Arc<MetricsExporter> is dropped: no call of reload is under way
ExporterDrop ==
    /\ exporter = "alive"
    /\ \A p \in Procs : rl[p].pc = "idle"
    /\ DropExporter
    /\ UNCHANGED <<writer, interval_sec, running_endpoint, mutex, notified,
                   local_sig, stopped_sig, rl, loop, obs>>

(***************************************************************************)
(* The server task of an endpoint (line 114-129)                           *)
(***************************************************************************)
\* line 117-119: a poll of the server polls
\* select(completion_signal, local_completion_signal): graceful shutdown starts
\* when one is fired, and the two receivers are dropped with the shutdown
\* future (utils.rs 45-50: the one that is not fired loses its waker); else
\* both register the task's waker
ServerPoll(e) ==
    /\ ep[e].st = "serving"
    /\ ep[e].run
    /\ IF Ready(completion_sig) \/ Ready(local_sig[e])
          THEN /\ ep' = [ep EXCEPT ![e].st = "draining"]
               /\ completion_sig' = Unsubscribe(completion_sig, e)
               /\ local_sig' = [local_sig EXCEPT ![e] = Unsubscribe(@, e)]
          ELSE /\ ep' = [ep EXCEPT ![e].run = FALSE]
               /\ completion_sig' = Subscribe(completion_sig, e)
               /\ local_sig' = [local_sig EXCEPT ![e] = Subscribe(@, e)]
    /\ UNCHANGED <<exporter, writer, interval_sec, running_endpoint, mutex,
                   notified, stopped_sig, rl, loop, obs>>

\* line 121: the server future ends and is dropped, the listener and the two
\* receivers of the shutdown future with it
ServerEnds(e) ==
    /\ ep' = [ep EXCEPT ![e].st = "closed", ![e].run = FALSE]
    /\ completion_sig' = Unsubscribe(completion_sig, e)
    /\ local_sig' = [local_sig EXCEPT ![e] = Unsubscribe(@, e)]
    /\ UNCHANGED <<exporter, writer, interval_sec, running_endpoint, mutex,
                   notified, stopped_sig, rl, loop, obs>>

\* line 121, 124: the connections are drained, server.await returns Ok
ServerDrained(e) ==
    /\ ep[e].st = "draining"
    /\ ServerEnds(e)

\* line 121-122: the serve loop fails, server.await returns the error
ServerFails(e) ==
    /\ ep[e].st = "serving"
    /\ ServerEnds(e)

\* a server task that ends without firing its stopped signal
StoppedNotFired(s) == s

\* line 128: stopped_trigger.trigger(), whichever way server.await ended
StoppedFires(s) == Fire(s)

\* line 128: stopped_trigger.trigger(), then the task is over; nothing is
\* left of an endpoint whose RunningEndpoint was dropped (its slot is free,
\* its signals are gone)
ServerStopped(e) ==
    /\ ep[e].st = "closed"
    /\ IF Orphan(e)
          THEN /\ ep' = [ep EXCEPT ![e] = NoEndpoint]
               /\ local_sig' = [local_sig EXCEPT ![e] = NewSignal]
               /\ stopped_sig' = [stopped_sig EXCEPT ![e] = NewSignal]
          ELSE /\ ep' = [ep EXCEPT ![e].st = "done", ![e].addr = 0]
               /\ stopped_sig' = [stopped_sig EXCEPT ![e] = StoppedFires(@)]
               /\ UNCHANGED local_sig
    /\ rl' = [p \in Procs |->
                 [rl[p] EXCEPT !.run = @ \/ p \in Woken(stopped_sig[e])]]
    /\ UNCHANGED <<exporter, writer, interval_sec, running_endpoint, mutex,
                   notified, completion_sig, loop, obs>>

(***************************************************************************)
(* MetricsWriter::spawn and MetricsExporterHandle::wait                    *)
(***************************************************************************)
\* line 166-168: spawn hands the task, with a Weak handle, to the runtime; the
\* MetricsWriter still owns its Arc of the handle
WriterSpawn ==
    /\ writer = "held"
    /\ writer' = "spawning"
    /\ loop' = [loop EXCEPT !.pc = "top"]
    /\ UNCHANGED <<exporter, interval_sec, running_endpoint, mutex, notified,
                   completion_sig, local_sig, stopped_sig, ep, rl, obs>>

\* line 181: spawn returns, self is dropped and its Arc of the handle with it
WriterSpawnReturn ==
    /\ writer = "spawning"
    /\ writer' = "spawned"
    /\ UNCHANGED <<exporter, interval_sec, running_endpoint, mutex, notified,
                   completion_sig, local_sig, stopped_sig, ep, rl, loop, obs>>

\* line 170: handle.upgrade() succeeds while a strong reference is left: the
\* one of the MetricsExporter, or the one of the MetricsWriter until spawn has
\* returned (the loop holds none at the top of an iteration)
Upgrade == exporter # "dropped" \/ writer = "spawning"

\* line 170-176
LoopUpgrade ==
    /\ loop.pc = "top"
    /\ loop' = [loop EXCEPT !.pc = IF Upgrade THEN "call" ELSE "exited"]
    /\ UNCHANGED <<exporter, writer, interval_sec, running_endpoint, mutex,
                   notified, completion_sig, local_sig, stopped_sig, ep, rl,
                   obs>>

\* line 172, 243: the loop calls acquire_buffer; it goes on with
\* AcquireLock, AcquireClear, then the callback with BufferWrite, and the drop
\* of the MetricsBuffer with BufferPublish. The invocations of the loop are
\* unbounded: they are numbered 1, 2, 1, 2, ... so that an invocation never
\* writes what the one before it wrote.
LoopAcquireLoad ==
    /\ loop.pc = "call"
    /\ wr.pc = "load"
    /\ wr' = [pc |-> "lock", next_buffer |-> NextBuffer(current_buffer),
              k |-> IF wr.k = 1 THEN 2 ELSE 1, n |-> 0]
    /\ obs' = [obs EXCEPT !.called = TRUE,
                          !.zcalls = IF interval_sec # 0 THEN 0
                                     ELSE IF @ < 2 THEN @ + 1 ELSE 2]
    /\ UNCHANGED <<data, current_buffer, rw, rd, cleared>>
    /\ UNCHANGED <<exporter, writer, interval_sec, running_endpoint, mutex,
                   notified, completion_sig, local_sig, stopped_sig, ep, rl,
                   loop>>

\* line 172, 177: the MetricsBuffer is dropped, its write guard released
\* (BufferRelease), and the loop goes on to handle.wait()
LoopCallbackReturn ==
    /\ loop.pc = "call"
    /\ BufferRelease
    /\ loop' = [loop EXCEPT !.pc = "wait"]
    /\ UNCHANGED <<exporter, writer, interval_sec, running_endpoint, mutex,
                   notified, completion_sig, local_sig, stopped_sig, ep, rl,
                   obs>>

\* a Notified future that receives notifications only once it has been polled
NotifiedAtFirstPoll == "created"

\* line 199: notified() returns a future that receives every notify_waiters
\* from its creation on
NotifiedAtCreation == "armed"

\* line 199: let new_config = self.new_config_notify.notified()
WaitNotified ==
    /\ loop.pc = "wait"
    /\ notified' = NotifiedAtCreation
    /\ loop' = [loop EXCEPT !.pc = "load"]
    /\ UNCHANGED <<exporter, writer, interval_sec, running_endpoint, mutex,
                   completion_sig, local_sig, stopped_sig, ep, rl, obs>>

\* a wait() that sleeps for any interval
SleepAlways(i) == FALSE

\* line 205: if current_interval == 0, nothing but the new config is awaited
NoSchedule(i) == i = 0

\* line 201-205: load the interval; it decides between the await (zero) and
\* the select
WaitLoad ==
    /\ loop.pc = "load"
    /\ loop' = [pc |-> IF NoSchedule(interval_sec) THEN "await" ELSE "select",
                current_interval |-> interval_sec, polled |-> FALSE]
    /\ obs' = IF interval_sec = 0 THEN [obs EXCEPT !.sawZero = TRUE] ELSE obs
    /\ UNCHANGED <<exporter, writer, interval_sec, running_endpoint, mutex,
                   notified, completion_sig, local_sig, stopped_sig, ep, rl>>

\* line 206, 210: the first poll of new_config (and of the sleep), by the await
\* or by the select; the task is suspended unless the future is completed
WaitPoll ==
    /\ loop.pc \in {"await", "select"}
    /\ ~loop.polled
    /\ loop' = [loop EXCEPT !.polled = TRUE]
    /\ notified' = IF notified = "created" THEN "armed" ELSE notified
    /\ UNCHANGED <<exporter, writer, interval_sec, running_endpoint, mutex,
                   completion_sig, local_sig, stopped_sig, ep, rl, obs>>

\* line 206-207: new_config.await returns, continue
WaitZeroNotified ==
    /\ loop.pc = "await"
    /\ loop.polled
    /\ notified = "fired"
    /\ notified' = "none"
    /\ loop' = [loop EXCEPT !.pc = "wait", !.polled = FALSE,
                            !.current_interval = 0]
    /\ UNCHANGED <<exporter, writer, interval_sec, running_endpoint, mutex,
                   completion_sig, local_sig, stopped_sig, ep, rl, obs>>

\* line 212: the sleep of current_interval seconds is over, wait() returns; the
\* loop drops its handle (line 179)
WaitSleepOver ==
    /\ loop.pc = "select"
    /\ loop.polled
    /\ notified' = "none"
    /\ loop' = [loop EXCEPT !.pc = "top", !.polled = FALSE,
                            !.current_interval = 0]
    /\ UNCHANGED <<exporter, writer, interval_sec, running_endpoint, mutex,
                   completion_sig, local_sig, stopped_sig, ep, rl, obs>>

\* a wait() that returns on any notification
AnyInterval(i) == TRUE

\* line 215: the interval loaded after a notification is still a schedule
StillScheduled(i) == i > 0

\* line 214-221: the notification wins the select: wait() returns on a
\* non-zero interval and starts over on zero
WaitSelectNotified ==
    /\ loop.pc = "select"
    /\ loop.polled
    /\ notified = "fired"
    /\ notified' = "none"
    /\ loop' = [pc |-> IF StillScheduled(interval_sec) THEN "top" ELSE "wait",
                current_interval |-> 0, polled |-> FALSE]
    /\ obs' = IF interval_sec = 0 THEN [obs EXCEPT !.sawZero = TRUE] ELSE obs
    /\ UNCHANGED <<exporter, writer, interval_sec, running_endpoint, mutex,
                   completion_sig, local_sig, stopped_sig, ep, rl>>

(***************************************************************************)
(* exporter.rs line 75-104: the service of an endpoint                     *)
(*   path:  the metrics path the service was made with (config.metrics_path*)
(*          cloned at line 75), NoPath before the endpoint is started      *)
(*   req:   a request to the endpoint and its response: where the handler  *)
(*          is (pc), the method and the URI of the request, the status,    *)
(*          the Content-Type header and the body of the response           *)
(* A URI and a path are a path and a query; the handler compares them as   *)
(* wholes. The handler calls get_metrics as the reader Handler.            *)
(***************************************************************************)
VARIABLES path, req

httpVars == <<path, req>>

Methods == {"GET", "POST"}
Uris == [path : {"/", "/metrics"}, query : {"", "x"}]
NoPath == [path |-> "", query |-> ""]
Handler == 1
NoRequest == [pc |-> "idle", method |-> "", uri |-> NoPath,
              status |-> 0, ctype |-> "", body |-> <<>>]

InitHttp ==
    /\ path = NoPath
    /\ req = NoRequest

\* line 75-83: the service is made with a clone of config.metrics_path
ServiceStart(p) ==
    /\ path = NoPath
    /\ path' = p
    /\ UNCHANGED <<req, bufVars>>

\* line 83: a request arrives, whatever its method and URI
Request(m, u) ==
    /\ path # NoPath
    /\ req.pc \in {"idle", "done"}
    /\ rd[Handler].pc = "idle"
    /\ req' = [NoRequest EXCEPT !.pc = "check", !.method = m, !.uri = u]
    /\ UNCHANGED <<path, bufVars>>

\* a handler that looks at the method only
MethodOnly(m, u, p) == m # "GET"

\* line 85: req.method() != hyper::Method::GET || req.uri() != path.as_str()
NotAllowed(m, u, p) == m # "GET" \/ u # p

\* line 85-90: NOT_FOUND with an empty body
RespondNotFound ==
    /\ req.pc = "check"
    /\ NotAllowed(req.method, req.uri, path)
    /\ req' = [req EXCEPT !.pc = "done", !.status = 404, !.body = <<>>]
    /\ UNCHANGED <<path, bufVars>>

\* line 93-97: the request is allowed, buffers.get_metrics() is called
HandlerGet ==
    /\ req.pc = "check"
    /\ ~NotAllowed(req.method, req.uri, path)
    /\ GetLoad(Handler)
    /\ req' = [req EXCEPT !.pc = "get"]
    /\ UNCHANGED path

\* line 97: get_metrics asks for the read lock
HandlerLock ==
    /\ req.pc = "get"
    /\ GetLock(Handler)
    /\ UNCHANGED <<path, req>>

\* line 97-100: get_metrics returns the copy, which is the body of the
\* response (status 200 by default) with the Content-Type header
RespondMetrics ==
    /\ req.pc = "get"
    /\ GetClone(Handler)
    /\ req' = [req EXCEPT !.pc = "done", !.status = 200,
                          !.ctype = "text/plain; charset=UTF-8",
                          !.body = rd'[Handler].got.val]
    /\ UNCHANGED path

(***************************************************************************)
(* The specifications.                                                     *)
(***************************************************************************)
vars == <<trigVars, bufVars, expVars, httpVars>>

Init == InitTrig /\ InitBuf /\ InitExp /\ InitHttp

NextTrig ==
    \/ \E t \in Triggers : TriggerSwap(t) /\ UNCHANGED <<bufVars, expVars, httpVars>>
    \/ \E t \in Triggers : TriggerTake(t) /\ UNCHANGED <<bufVars, expVars, httpVars>>
    \/ \E t \in Triggers : TriggerWake(t) /\ UNCHANGED <<bufVars, expVars, httpVars>>
    \/ \E t \in Triggers : TriggerReturn(t) /\ UNCHANGED <<bufVars, expVars, httpVars>>
    \/ \E r \in Receivers : ReceiverClone(r) /\ UNCHANGED <<bufVars, expVars, httpVars>>
    \/ \E r \in Receivers : \E w \in Wakers : PollCheck(r, w) /\ UNCHANGED <<bufVars, expVars, httpVars>>
    \/ \E r \in Receivers : PollLock(r) /\ UNCHANGED <<bufVars, expVars, httpVars>>
    \/ \E r \in Receivers : PollRegister(r) /\ UNCHANGED <<bufVars, expVars, httpVars>>
    \/ \E r \in Receivers : DropCheck(r) /\ UNCHANGED <<bufVars, expVars, httpVars>>
    \/ \E r \in Receivers : DropRemove(r) /\ UNCHANGED <<bufVars, expVars, httpVars>>

NextBuf ==
    \/ AcquireLoad /\ UNCHANGED <<trigVars, expVars, httpVars>>
    \/ AcquireLock /\ UNCHANGED <<trigVars, expVars, httpVars>>
    \/ AcquireClear /\ UNCHANGED <<trigVars, expVars, httpVars>>
    \/ BufferWrite /\ UNCHANGED <<trigVars, expVars, httpVars>>
    \/ BufferPublish /\ UNCHANGED <<trigVars, expVars, httpVars>>
    \/ BufferRelease /\ UNCHANGED <<trigVars, expVars, httpVars>>
    \/ \E r \in Readers : GetLoad(r) /\ UNCHANGED <<trigVars, expVars, httpVars>>
    \/ \E r \in Readers : GetLock(r) /\ UNCHANGED <<trigVars, expVars, httpVars>>
    \/ \E r \in Readers : GetClone(r) /\ UNCHANGED <<trigVars, expVars, httpVars>>

NextHttp ==
    \/ \E p \in Uris : ServiceStart(p) /\ UNCHANGED <<trigVars, expVars>>
    \/ \E m \in Methods, u \in Uris :
          Request(m, u) /\ UNCHANGED <<trigVars, expVars>>
    \/ RespondNotFound /\ UNCHANGED <<trigVars, expVars>>
    \/ HandlerGet /\ UNCHANGED <<trigVars, expVars>>
    \/ HandlerLock /\ UNCHANGED <<trigVars, expVars>>
    \/ RespondMetrics /\ UNCHANGED <<trigVars, expVars>>
    \/ AcquireLoad /\ UNCHANGED <<trigVars, expVars, httpVars>>
    \/ AcquireLock /\ UNCHANGED <<trigVars, expVars, httpVars>>
    \/ AcquireClear /\ UNCHANGED <<trigVars, expVars, httpVars>>
    \/ BufferWrite /\ UNCHANGED <<trigVars, expVars, httpVars>>
    \/ BufferPublish /\ UNCHANGED <<trigVars, expVars, httpVars>>
    \/ BufferRelease /\ UNCHANGED <<trigVars, expVars, httpVars>>

\* The endpoint and its servers: the callers of reload, concurrent, any of
\* which may drop its call while it is suspended, the server tasks, the drop
\* of the exporter.
NextExp ==
    \/ \E p \in Procs : ReloadCall(p) /\ UNCHANGED <<trigVars, bufVars, httpVars>>
    \/ \E p \in Procs : ReloadLock(p) /\ UNCHANGED <<trigVars, bufVars, httpVars>>
    \/ \E p \in Procs : ReloadTake(p) /\ UNCHANGED <<trigVars, bufVars, httpVars>>
    \/ \E p \in Procs : ReloadSkip(p) /\ UNCHANGED <<trigVars, bufVars, httpVars>>
    \/ \E p \in Procs : ReloadAwait(p) /\ UNCHANGED <<trigVars, bufVars, httpVars>>
    \/ \E p \in Procs : ReloadCancel(p) /\ UNCHANGED <<trigVars, bufVars, httpVars>>
    \/ \E p \in Procs : ReloadDisable(p) /\ UNCHANGED <<trigVars, bufVars, httpVars>>
    \/ \E p \in Procs : \E c \in Configs :
          ReloadBind(p, c) /\ UNCHANGED <<trigVars, httpVars>>
    \/ \E p \in Procs : ReloadBindFails(p) /\ UNCHANGED <<trigVars, bufVars, httpVars>>
    \/ \E p \in Procs : ReloadStore(p) /\ UNCHANGED <<trigVars, bufVars, httpVars>>
    \/ \E p \in Procs : ReloadNotify(p) /\ UNCHANGED <<trigVars, bufVars, httpVars>>
    \/ \E p \in Procs : ReloadReturn(p) /\ UNCHANGED <<trigVars, bufVars, httpVars>>
    \/ ExporterDrop /\ UNCHANGED <<trigVars, bufVars, httpVars>>
    \/ \E e \in Endpoints : ServerPoll(e) /\ UNCHANGED <<trigVars, bufVars, httpVars>>
    \/ \E e \in Endpoints : ServerDrained(e) /\ UNCHANGED <<trigVars, bufVars, httpVars>>
    \/ \E e \in Endpoints : ServerFails(e) /\ UNCHANGED <<trigVars, bufVars, httpVars>>
    \/ \E e \in Endpoints : ServerStopped(e) /\ UNCHANGED <<trigVars, bufVars, httpVars>>

\* the task that called create_exporter
Creator == 1

\* The refresh loop and what it reads: the interval and the notifications of
\* reload, the drop of the exporter, the buffers. The stores and the
\* notifications of reload are made under the mutex, one call after the
\* other, and a call that is dropped has made none: the calls are those of
\* the creator, each carried through.
NextLoop ==
    \/ ReloadCall(Creator) /\ UNCHANGED <<trigVars, bufVars, httpVars>>
    \/ \E p \in Procs : ReloadLock(p) /\ UNCHANGED <<trigVars, bufVars, httpVars>>
    \/ \E p \in Procs : ReloadTake(p) /\ UNCHANGED <<trigVars, bufVars, httpVars>>
    \/ \E p \in Procs : ReloadSkip(p) /\ UNCHANGED <<trigVars, bufVars, httpVars>>
    \/ \E p \in Procs : ReloadAwait(p) /\ UNCHANGED <<trigVars, bufVars, httpVars>>
    \/ \E p \in Procs : ReloadDisable(p) /\ UNCHANGED <<trigVars, bufVars, httpVars>>
    \/ \E p \in Procs : \E c \in Configs :
          ReloadBind(p, c) /\ UNCHANGED <<trigVars, httpVars>>
    \/ \E p \in Procs : ReloadBindFails(p) /\ UNCHANGED <<trigVars, bufVars, httpVars>>
    \/ \E p \in Procs : ReloadStore(p) /\ UNCHANGED <<trigVars, bufVars, httpVars>>
    \/ \E p \in Procs : ReloadNotify(p) /\ UNCHANGED <<trigVars, bufVars, httpVars>>
    \/ \E p \in Procs : ReloadReturn(p) /\ UNCHANGED <<trigVars, bufVars, httpVars>>
    \/ ExporterDrop /\ UNCHANGED <<trigVars, bufVars, httpVars>>
    \/ \E e \in Endpoints : ServerPoll(e) /\ UNCHANGED <<trigVars, bufVars, httpVars>>
    \/ \E e \in Endpoints : ServerDrained(e) /\ UNCHANGED <<trigVars, bufVars, httpVars>>
    \/ \E e \in Endpoints : ServerFails(e) /\ UNCHANGED <<trigVars, bufVars, httpVars>>
    \/ \E e \in Endpoints : ServerStopped(e) /\ UNCHANGED <<trigVars, bufVars, httpVars>>
    \/ WriterSpawn /\ UNCHANGED <<trigVars, bufVars, httpVars>>
    \/ WriterSpawnReturn /\ UNCHANGED <<trigVars, bufVars, httpVars>>
    \/ LoopUpgrade /\ UNCHANGED <<trigVars, bufVars, httpVars>>
    \/ LoopAcquireLoad /\ UNCHANGED <<trigVars, httpVars>>
    \/ AcquireLock /\ loop.pc = "call" /\ UNCHANGED <<trigVars, expVars, httpVars>>
    \/ AcquireClear /\ loop.pc = "call" /\ UNCHANGED <<trigVars, expVars, httpVars>>
    \/ BufferWrite /\ loop.pc = "call" /\ UNCHANGED <<trigVars, expVars, httpVars>>
    \/ BufferPublish /\ loop.pc = "call" /\ UNCHANGED <<trigVars, expVars, httpVars>>
    \/ LoopCallbackReturn /\ UNCHANGED <<trigVars, httpVars>>
    \/ WaitNotified /\ UNCHANGED <<trigVars, bufVars, httpVars>>
    \/ WaitLoad /\ UNCHANGED <<trigVars, bufVars, httpVars>>
    \/ WaitPoll /\ UNCHANGED <<trigVars, bufVars, httpVars>>
    \/ WaitZeroNotified /\ UNCHANGED <<trigVars, bufVars, httpVars>>
    \/ WaitSleepOver /\ UNCHANGED <<trigVars, bufVars, httpVars>>
    \/ WaitSelectNotified /\ UNCHANGED <<trigVars, bufVars, httpVars>>

SpecTrig == Init /\ [][NextTrig]_vars
SpecBuf == Init /\ [][NextBuf]_vars
SpecExp == Init /\ [][NextExp]_vars
SpecLoop == Init /\ [][NextLoop]_vars
SpecHttp == Init /\ [][NextHttp]_vars

\* The tokio runtime polls a task that is ready to go on, and a timer ends:
\* the steps of the refresh loop and of the server tasks (but for the failure
\* of the serve loop) are taken when they stay possible. No more is assumed
\* of the server tasks than that, taken together, they are not left waiting
\* for ever when one of them can go on: a step of a task that can be taken
\* stays so until it is taken.
LoopStep ==
    \/ LoopAcquireLoad \/ LoopCallbackReturn
    \/ /\ AcquireLock \/ AcquireClear \/ BufferWrite \/ BufferPublish
       /\ loop.pc = "call"
       /\ UNCHANGED expVars
    \/ /\ \/ LoopUpgrade \/ WaitNotified \/ WaitLoad \/ WaitPoll
          \/ WaitZeroNotified \/ WaitSleepOver \/ WaitSelectNotified
       /\ UNCHANGED bufVars
ServerStep(e) == ServerPoll(e) \/ ServerDrained(e) \/ ServerStopped(e)
ReloadStep(p) ==
    \/ ReloadLock(p) \/ ReloadTake(p) \/ ReloadSkip(p) \/ ReloadAwait(p)
    \/ ReloadStore(p) \/ ReloadNotify(p) \/ ReloadReturn(p)

\* the server tasks: the runtime owns them
FairnessExp ==
    WF_vars((\E e \in Endpoints : ServerStep(e))
               /\ UNCHANGED <<trigVars, bufVars, httpVars>>)

\* the refresh loop, and the calls of reload when their caller carries them
\* through
Fairness ==
    /\ WF_vars(LoopStep /\ UNCHANGED <<trigVars, httpVars>>)
    /\ WF_vars((\E p \in Procs : ReloadStep(p))
                  /\ UNCHANGED <<trigVars, bufVars, httpVars>>)
    /\ FairnessExp

SpecExpFair == SpecExp /\ FairnessExp
SpecLoopFair == SpecLoop /\ Fairness

(***************************************************************************)
(* The exporter's claims: those on the endpoint under SpecExp (C11 under   *)
(* SpecExpFair), those on the refresh loop under SpecLoop (C5 under        *)
(* SpecLoopFair).                                                          *)
(***************************************************************************)
\* C2: at most one HTTP listener is bound at any time, whatever the sequence
\* and the interleaving of the calls of reload.
C2_AtMostOneListener == Cardinality(Bound) <= 1

\* C3: drain before proceed. A reload that found an endpoint in the slot has
\* fired that endpoint's completion trigger when it awaits the stopped signal,
\* and it is past the await (reading its argument, binding, storing the
\* interval, notifying, returning) only if the stopped signal had fired and
\* the server task had ended when it went on; when it reads its argument, to
\* bind or to disable, no listener of an earlier configuration is bound.
C3_DrainBeforeProceed ==
    \A p \in Procs :
        /\ rl[p].pc = "await" => Ready(local_sig[rl[p].took])
        /\ (rl[p].pc \in {"config", "store", "notify", "return"} /\ rl[p].pre # 0)
              => rl[p].drained
        /\ rl[p].pc = "config" => Bound = {}

\* C4: a reload that fails to bind returns with the exporter as it was when
\* the call began: the slot holds what it held, the endpoint it held has not
\* been asked to stop, and no schedule is active without an endpoint.
C4_BindFailureKeepsState ==
    \A p \in Procs :
        (rl[p].pc = "return" /\ rl[p].res = "err") =>
            /\ running_endpoint = rl[p].pre
            /\ rl[p].pre # 0 => ~Ready(local_sig[rl[p].pre])
            /\ running_endpoint = 0 => interval_sec = 0

\* C5: once the writer was consumed by spawn and the exporter is dropped, the
\* refresh loop eventually exits.
C5_LoopExits ==
    (exporter = "dropped" /\ writer = "spawned") ~> (loop.pc = "exited")

\* C6: no lost wake-up on an interval change. Unless a reload is between its
\* store and its notify_waiters, a loop suspended in wait() with no
\* notification delivered to it waits for the interval that is stored: it
\* waits indefinitely only if the interval is 0, and its sleep is a sleep of
\* the stored interval.
C6_NoLostWakeup ==
    (\A p \in Procs : rl[p].pc # "notify") =>
        /\ (loop.pc = "await" /\ notified # "fired") => interval_sec = 0
        /\ (loop.pc = "select" /\ notified # "fired")
              => interval_sec = loop.current_interval

\* the loop is about to sleep for the old interval, or to wait indefinitely,
\* and the notification of a new non-zero interval has reached it before its
\* first poll
C6_Witness ==
    /\ loop.pc \in {"await", "select"} /\ ~loop.polled
    /\ notified = "fired"
    /\ interval_sec # 0 /\ interval_sec # loop.current_interval
    /\ \A p \in Procs : rl[p].pc # "notify"

\* C7 as claimed: once the loop has invoked the callback, it starts no
\* invocation while the interval last stored by reload is 0.
C7_NoCallAtZero ==
    [][(obs.called /\ obs.zeroSet /\ interval_sec = 0)
         => ~(loop.pc = "call" /\ wr.pc = "load" /\ wr'.pc = "lock")]_vars

\* C7 as amended: once the loop has loaded the interval 0 in wait(), it stays
\* in wait(), and invokes the callback no more, for as long as the interval
\* stored stays 0.
C7_ParkedAtZero ==
    (obs.sawZero /\ interval_sec = 0) => loop.pc \in {"wait", "load", "await"}

\* the loop has invoked the callback, reload has stored the interval 0 and
\* returned, the loop has loaded the 0 and is suspended on new_config
C7_Witness ==
    /\ obs.called /\ obs.zeroSet /\ obs.sawZero /\ interval_sec = 0
    /\ loop.pc = "await" /\ loop.polled /\ notified = "armed"
    /\ \A p \in Procs : rl[p].pc = "idle"

\* C13: reload(None) disables without destroying. When reload(None) returns
\* the slot is empty, no listener is bound, the interval is 0 and no sleep of
\* the loop for an older interval is left without its notification; when a
\* reload(Some(cfg)) returns Ok, also after a disable, the slot holds an
\* endpoint that was not asked to stop, bound to cfg.listen_address as long
\* as its server serves, and the interval is cfg.collection_interval_sec.
C13_DisableThenEnable ==
    \A p \in Procs :
        (rl[p].pc = "return" /\ rl[p].res = "ok") =>
            IF rl[p].cfg = NoConfig
               THEN /\ running_endpoint = 0 /\ Bound = {}
                    /\ interval_sec = 0
                    /\ loop.pc = "select" => notified = "fired"
               ELSE /\ running_endpoint # 0
                    /\ ~Ready(local_sig[running_endpoint])
                    /\ interval_sec = rl[p].cfg.collection_interval_sec
                    /\ ep[running_endpoint].st = "serving" =>
                          /\ ep[running_endpoint].addr = rl[p].cfg.listen_address
                          /\ Bound = {running_endpoint}

\* C18: recovery after an unexpected stop of the server. A server task that
\* has ended has fired its stopped signal and never serves again; the slot
\* holds the dead endpoint until a reload takes it; and a reload that takes
\* an endpoint whose task had ended finds the stopped signal fired at the
\* first poll of its await, so it goes on without being suspended.
C18_RecoveryAfterStop ==
    /\ [](/\ \A e \in Endpoints : ep[e].st = "done" => Ready(stopped_sig[e])
          /\ \A p \in Procs :
                (rl[p].dead /\ rl[p].pc = "await") =>
                    rl[p].run /\ Ready(stopped_sig[rl[p].took]))
    /\ [][\A e \in Endpoints :
             /\ ep[e].st \in {"closed", "done"}
                   => ep'[e].st \in {"closed", "done", "free"}
             /\ (running_endpoint = e /\ ep[e].st \in {"closed", "done"}
                    /\ running_endpoint' # e)
                   => \E p \in Procs :
                         /\ rl[p].pc = "take" /\ rl'[p].pc = "await"
                         /\ rl'[p].took = e]_vars

\* the server of the endpoint in the slot had failed when a
\* reload(Some(cfg)) took it; the reload has bound the new listener and is
\* about to return Ok
C18_Witness ==
    \E p \in Procs :
        /\ rl[p].dead /\ rl[p].drained /\ rl[p].pc = "return"
        /\ rl[p].res = "ok" /\ rl[p].cfg # NoConfig
        /\ running_endpoint # 0 /\ ep[running_endpoint].st = "serving"
        /\ exporter = "alive"

\* C19: reload leaves the snapshot untouched. No step of a reload, whatever
\* its outcome, changes a buffer or the current index, so the current buffer
\* always holds what the last invocation of the callback published: that is
\* what the listener bound by a reload serves.
C19_ReloadKeepsSnapshot ==
    /\ [](data[current_buffer] = IF cleared[current_buffer] = 0 THEN <<>>
                                 ELSE Snapshot(cleared[current_buffer]))
    /\ [][(\E p \in Procs : rl'[p] # rl[p])
            => (data' = data /\ current_buffer' = current_buffer)]_vars

\* a reload from Running to Running is about to return Ok: the new listener
\* serves, and the current buffer holds the snapshot published last
C19_Witness ==
    \E p \in Procs :
        /\ rl[p].pc = "return" /\ rl[p].res = "ok" /\ rl[p].cfg # NoConfig
        /\ rl[p].pre # 0 /\ rl[p].drained
        /\ running_endpoint # 0 /\ ep[running_endpoint].st = "serving"
        /\ wr.k = 2 /\ current_buffer = 0 /\ data[0] = Snapshot(2)

\* C20: bounded overshoot after disable. From the moment the interval stored
\* becomes 0 and for as long as it stays 0 the loop invokes the callback at
\* most once more, and after that invocation it is in wait(), where it goes
\* neither to the select nor back to the callback. The first invocation after
\* spawn does not wait for an interval: until it has happened the loop is not
\* in wait(), and it has exited only if the exporter was dropped.
C20_BoundedOvershoot ==
    /\ obs.zcalls <= 1
    /\ (interval_sec = 0 /\ obs.zcalls = 1)
          => \/ loop.pc = "call" /\ wr.pc # "load"
             \/ loop.pc \in {"wait", "load", "await"}
    /\ (writer \in {"spawning", "spawned"} /\ ~obs.called)
          => /\ loop.pc \in {"top", "call", "exited"}
             /\ loop.pc = "exited" => exporter = "dropped"

\* a reload has stored 0 and returned; the loop, which had invoked the
\* callback before, has invoked it once more with the 0 stored, then loaded
\* the 0, and is suspended on new_config
C20_Witness ==
    /\ obs.zeroSet /\ interval_sec = 0 /\ obs.zcalls = 1 /\ wr.k = 2
    /\ loop.pc = "await" /\ loop.polled /\ notified = "armed"
    /\ running_endpoint # 0
    /\ \A p \in Procs : rl[p].pc = "idle"

\* C11: dropping the exporter stops the listener. Once the exporter is
\* dropped its completion signal is fired, and every server task eventually
\* ends with its listener gone and its stopped signal fired, whether its
\* shutdown future was polled before the drop or only after it.
C11_DropStopsListener ==
    /\ [](exporter = "dropped" => Ready(completion_sig))
    /\ (exporter = "dropped") ~>
          (/\ Bound = {}
           /\ \A e \in Endpoints :
                 /\ ep[e].st \in {"free", "done"}
                 /\ ep[e].st = "done" => Ready(stopped_sig[e]))

\* the exporter is dropped and the server of the endpoint in the slot, which
\* no reload has asked to stop, is shutting down with its listener still bound
C11_Witness ==
    /\ exporter = "dropped"
    /\ running_endpoint # 0
    /\ ep[running_endpoint].st = "draining"
    /\ ~Ready(local_sig[running_endpoint])
    /\ Bound = {running_endpoint}

(***************************************************************************)
(* The double buffer's claims (under SpecBuf).                             *)
(***************************************************************************)
\* C1: buffer atomicity. Whatever the interleaving of the refresh loop with the
\* readers, the string a get_metrics call returns is the initial empty string
\* (copied from a buffer no invocation has cleared yet) or the whole text of
\* one invocation of the callback that has completed: not a cleared buffer
\* still being written, not a prefix, not chunks of two invocations.
C1_BufferAtomicity ==
    \A r \in Readers :
        /\ rd[r].got.k <= Completed
        /\ rd[r].got.val = IF rd[r].got.k = 0 THEN <<>> ELSE Snapshot(rd[r].got.k)

\* a reader waits for the buffer the callback is half-way through writing,
\* while another reader has returned the snapshot of an earlier invocation
C1_Witness ==
    \E r, q \in Readers :
        /\ wr.pc = "write" /\ wr.n = 1 /\ wr.k >= 2
        /\ rd[r].pc = "await" /\ rd[r].idx = wr.next_buffer
        /\ r \notin rw[rd[r].idx].readers
        /\ rd[q].reads = 1 /\ rd[q].got.k = wr.k - 1
        /\ rd[q].got.val = Snapshot(wr.k - 1)

\* a get_metrics call has asked for the read lock and has not been granted it
ReaderWaits(r) == rd[r].pc = "await" /\ r \notin rw[rd[r].idx].readers

\* acquire_buffer has asked for the write lock and has not been granted it
WriterWaits == wr.pc = "await" /\ ~rw[wr.next_buffer].writer

\* C12 as claimed: no get_metrics call waits for a lock the writer holds, and
\* acquire_buffer never waits for a lock a reader holds.
C12_NeverBlock ==
    /\ \A r \in Readers : ReaderWaits(r) => ~rw[rd[r].idx].writer
    /\ WriterWaits => rw[wr.next_buffer].readers = {}

\* C12 as amended: a get_metrics call waits only if an invocation was
\* published after it loaded the index (its buffer is the writer's again), or
\* for the writer that has published the buffer and releases its guard next;
\* acquire_buffer waits only for readers that loaded the index before the
\* last publication.
C12_BlockOnlyStale ==
    /\ \A r \in Readers :
          ReaderWaits(r) => (rd[r].c < Completed \/ wr.pc = "release")
    /\ WriterWaits =>
          \A r \in rw[wr.next_buffer].readers : rd[r].c < Completed

\* a reader that loaded the index before the last publication waits for the
\* writer, which is writing that buffer again; the other reader holds the
\* read lock of the current buffer
C12_Witness ==
    \E r, q \in Readers :
        /\ ReaderWaits(r) /\ rw[rd[r].idx].writer /\ wr.pc = "write"
        /\ rd[r].c < Completed
        /\ rd[q].pc = "await" /\ rd[q].idx = current_buffer
        /\ q \in rw[rd[q].idx].readers

\* C15: write-then-publish. From the grant of the write lock to the store of
\* the index the writer's buffer is not the current one, and only that
\* buffer's content changes; the index changes only in the drop of the write
\* handle, to the index of the buffer just written; it is 0 or 1 and equals
\* the number of invocations published modulo 2.
C15_WriteThenPublish ==
    /\ [](/\ current_buffer \in Buffer
          /\ current_buffer = Completed % BUFFER_COUNT
          /\ (wr.pc = "write" \/ (wr.pc = "await" /\ rw[wr.next_buffer].writer))
                => wr.next_buffer # current_buffer)
    /\ [][/\ \A b \in Buffer :
               data'[b] # data[b] => (b # current_buffer /\ b = wr.next_buffer)
          /\ current_buffer' # current_buffer =>
               /\ wr.pc = "write" /\ wr'.pc = "release"
               /\ current_buffer' = wr.next_buffer
               /\ data' = data]_vars

\* the second invocation has cleared buffer 0 and appended one chunk to it
\* while buffer 1, published by the first, is current
C15_Witness ==
    /\ wr.pc = "write" /\ wr.k = 2 /\ wr.n = 1
    /\ wr.next_buffer = 0 /\ current_buffer = 1
    /\ data[0] = <<Chunk(2)>> /\ data[1] = Snapshot(1)

\* C16: latest fully published wins. A get_metrics call that began when c
\* invocations were published returns the snapshot of invocation c or of a
\* later one (the buffer it goes on with is never older than c), and a call
\* never returns an older snapshot than the call of the same reader before.
C16_LatestPublishedWins ==
    /\ [](\A r \in Readers :
             /\ (rd[r].pc = "idle" /\ rd[r].reads = 1) => rd[r].got.k >= rd[r].c
             /\ rd[r].pc # "idle" => cleared[rd[r].idx] >= rd[r].c)
    /\ [][\A r \in Readers : rd'[r].got.k >= rd[r].got.k]_vars

\* a reader that began after the first publication is granted the read lock
\* of its buffer only after the third invocation was written to it; the
\* other reader has returned the first snapshot
C16_Witness ==
    \E r, q \in Readers :
        /\ rd[r].pc = "await" /\ r \in rw[rd[r].idx].readers
        /\ rd[r].c = 1 /\ cleared[rd[r].idx] = 3 /\ Completed = 3
        /\ rd[q].pc = "idle" /\ rd[q].reads = 1 /\ rd[q].got.k = 1

(***************************************************************************)
(* The service's claim (under SpecHttp).                                   *)
(***************************************************************************)
\* C14: the endpoint's response function. The response to a request is 200
\* with the content type text/plain; charset=UTF-8 and the copy get_metrics
\* returned for it as its body, one whole snapshot, if and only if the method
\* is GET and the URI is the path of the service; any other request gets 404
\* with an empty body and get_metrics is not called for it.
C14_ResponseFunction ==
    /\ req.pc = "done" =>
          IF req.method = "GET" /\ req.uri = path
             THEN /\ req.status = 200
                  /\ req.ctype = "text/plain; charset=UTF-8"
                  /\ req.body = rd[Handler].got.val
                  /\ req.body = IF rd[Handler].got.k = 0
                                   THEN <<>> ELSE Snapshot(rd[Handler].got.k)
             ELSE /\ req.status = 404
                  /\ req.body = <<>>
    /\ req.pc = "get" => (req.method = "GET" /\ req.uri = path)

\* a GET of the path with a query has been answered 200 with the snapshot of
\* the second invocation while the third is being written
C14_Witness ==
    /\ req.pc = "done" /\ req.status = 200
    /\ req.method = "GET" /\ req.uri = path /\ path.query # ""
    /\ req.body = Snapshot(2) /\ wr.k = 3 /\ wr.pc = "write"

(***************************************************************************)
(* The completion signal's claims (under SpecTrig).                        *)
(***************************************************************************)
TriggerRunning == \E t \in Triggers : trg[t].pc # "idle"

\* C8: exactly-once wake. No waker is woken before the first fire; the waker a
\* receiver registered is woken at most once however often the receiver was
\* polled and however many calls of trigger() there are; once the firing call
\* has returned, a live receiver that had registered has had exactly one wake,
\* of the waker it registered last; and no poll that begins after the fire
\* returns Pending.
C8_ExactlyOnceWake ==
    \A r \in Receivers :
        rcv[r].st # "none" =>
            /\ woken[rcv[r].id].n <= 1
            /\ (~complete => woken[rcv[r].id].n = 0)
            /\ rcv[r].last # "missed"
            /\ (wakeDone /\ rcv[r].st = "live" /\ rcv[r].reg # 0
                  => woken[rcv[r].id] = [n |-> 1, w |-> rcv[r].reg])

\* a receiver polled twice before the fire, with two wakers, then the trigger
\* fired twice, and the receiver polled again: one wake, Ready
C8_Witness ==
    \E r \in Receivers :
        /\ rcv[r].st = "live" /\ rcv[r].np = 2 /\ rcv[r].last = "ready"
        /\ fireCalls = 2 /\ wakeDone /\ ~TriggerRunning
        /\ woken[rcv[r].id] = [n |-> 1, w |-> rcv[r].reg]

\* C9: no missed completion. Once the trigger has been fired and no call of
\* trigger() is still under way, a receiver whose last poll returned Pending
\* has been woken (so it is polled again and resolves); a started fire is
\* never undone: the flag is set whenever a call is past its swap, has
\* returned, or a waker was woken.
C9_NoMissedCompletion ==
    /\ \A r \in Receivers :
          (/\ rcv[r].st = "live" /\ rcv[r].pc = "idle"
           /\ rcv[r].last \in {"pending", "missed"}
           /\ complete /\ ~TriggerRunning)
          => woken[rcv[r].id].n >= 1
    /\ (wakeDone \/ TriggerRunning \/ fireCalls > 0
           \/ \E i \in Ids : woken[i].n > 0) => complete

\* a poll passed its first check before the fire and took the lock after the
\* swap: it resolved; another receiver had returned Pending and was woken
C9_Witness ==
    \E r, q \in Receivers :
        /\ r # q /\ complete /\ ~TriggerRunning /\ wakeDone
        /\ rcv[r].st = "live" /\ rcv[r].last = "pending" /\ rcv[r].pc = "idle"
        /\ woken[rcv[r].id].n = 1
        /\ rcv[q].st = "live" /\ rcv[q].last = "ready" /\ rcv[q].reg = 0
        /\ woken[rcv[q].id].n = 0

\* C10: receiver drop bookkeeping. Receivers have ids of their own, and before
\* the fire the wake set holds exactly the entries of the live receivers that
\* registered, each with the waker registered last: a drop removes the
\* dropped receiver's entry and no other.
C10_DropBookkeeping ==
    /\ \A r, q \in Receivers :
          (r # q /\ rcv[r].st # "none" /\ rcv[q].st # "none")
          => rcv[r].id # rcv[q].id
    /\ ~complete =>
          \A r \in Receivers :
              rcv[r].st # "none" =>
                  wakers[rcv[r].id] =
                      IF rcv[r].st = "live" THEN rcv[r].reg ELSE 0

\* before the fire: a registered receiver was dropped, another one's entry stays
C10_Witness ==
    \E r, q \in Receivers :
        /\ ~complete
        /\ rcv[r].st = "dropped" /\ rcv[r].reg # 0 /\ wakers[rcv[r].id] = 0
        /\ rcv[q].st = "live" /\ rcv[q].reg # 0
        /\ wakers[rcv[q].id] = rcv[q].reg

\* C17 as claimed: once any call of trigger() has returned, be it the call
\* that set the flag or a later call that found it set, no waker registered
\* in the wake set is left unwoken.
C17_AnyCallWakes ==
    (wakeDone \/ fireCalls = 2) =>
        \A i \in Ids :
            /\ wakers[i] = 0
            /\ \A t \in Triggers : trg[t].taken[i] = 0

\* C17 as amended: when the call of trigger() that set the flag returns,
\* every waker registered in the wake set when that call began was woken
\* once, but for the entries whose receiver was dropped meanwhile, and the
\* wake set is empty.
C17_FiringCallWakes ==
    wakeDone =>
        /\ wakers = NoWakers
        /\ \A t \in Triggers : \A i \in trg[t].pre :
              \/ woken[i].n = 1
              \/ \E r \in Receivers : rcv[r].id = i /\ rcv[r].st = "dropped"

\* the call that set the flag has returned: one of the two wakers registered
\* when it began was woken, the other's receiver was dropped before the map
\* was taken; a second call has returned too
C17_Witness ==
    \E t \in Triggers :
        /\ wakeDone /\ trg[t].pc = "idle" /\ trg[t].pre = Ids
        /\ \E i, j \in Ids : woken[i].n = 1 /\ woken[j].n = 0
        /\ fireCalls = 2

====
